---- MODULE Spec2Model ----
(***************************************************************************)
(* Cosigner pool plugin (plugins/cosigner_pool.py): the Listener thread    *)
(* polling the pool server, the Plugin that rebuilds its key directory on  *)
(* every window open/close, the receive path (on_receive) and the send     *)
(* path (do_send).                                                         *)
(***************************************************************************)
EXTENDS Integers, Sequences, FiniteSets, TLC

\* ------------------------------------------------------------------ bounds
\* Listener objects alive at once: the plugin's own and the stopped ones
\* whose thread has not yet left run().
MaxListeners == 2
\* on_receive calls suspended at their modal prompt at the same time.
MaxNest == 1
\* Queued "cosigner:receive" signals not yet delivered to on_receive.
MaxQueue == 2
\* Consecutive failed server.get calls of one thread that are counted.
MaxFails == 3

\* Slot 1 holds the Listener object self.listener refers to; the slots
\* above hold Listener objects the plugin has stopped and dropped.
Listeners == 1..MaxListeners

\* ------------------------------------------------- the host's wallets
\* parent.windows: one window per wallet.  w1 and w2 are multisig wallets
\* that share the cosigner xpub 3; w1 asks for its password, w2 does not.
Windows == {"w1", "w2"}

wallet_type(w) ==
    CASE w = "w1" -> "2of2"
      [] w = "w2" -> "2of3"
      [] OTHER    -> "standard"

\* wallet.master_public_keys.items(): <<key, xpub>> pairs.
master_public_keys(w) ==
    CASE w = "w1" -> << <<"x1/", 1>>, <<"x2/", 3>> >>
      [] w = "w2" -> << <<"x1/", 2>>, <<"x2/", 3>>, <<"x3/", 4>> >>
      [] OTHER    -> << <<"x/", 5>> >>

\* Keys k for which wallet.master_private_keys.get(k) is truthy.
master_private_keys(w) ==
    CASE w = "w1" -> {"x1/"}
      [] w = "w2" -> {"x1/"}
      [] OTHER    -> {"x/"}

use_encryption(w) == w = "w1"

\* --------------------------------------------------- keys and messages
\* bitcoin.deserialize_xkey(x)[-1]: the key bytes inside an extended key.
\* Extended public keys are 1..5, the extended private key of xpub x is
\* 200 + x; the public key bytes of x are 10 + x, its secret is 100 + x.
deserialize_xkey(x) == IF x >= 200 THEN x - 100 ELSE x + 10

\* bitcoin.Hash(K).encode('hex'): injective on the public keys 11..15.
Hash(K) == (K * K) % 97

KeyHashOf(xpub) == Hash(deserialize_xkey(xpub))

\* The public key an EC_KEY built from a secret decrypts for.
PublicOfSecret(k) == k - 90

\* server.get's "nothing stored" (None): falsy in `if message`.
NoMessage == [raw |-> 0, K |-> 0]

\* bitcoin.encrypt_message(raw, K)
encrypt_message(raw, K) == [raw |-> raw, K |-> K]

\* EC.decrypt_message(message): the payload, or 0 where it raises.
decrypt_message(message, k) ==
    IF message.K = PublicOfSecret(k) THEN message.raw ELSE 0

\* Key hashes stored at the pool server.
KeyHashes == {KeyHashOf(x) : x \in 1..4}

\* Key hashes of the local keys, at which remote cosigners put messages.
LocalHashes == {KeyHashOf(1), KeyHashOf(2)}

\* Envelopes the remote cosigners put at key hash h: nothing for xpub 1;
\* for xpub 2 one of two payloads, or a payload encrypted for another key.
RemoteMessages(h) ==
    IF h = KeyHashOf(1)
      THEN {}
      ELSE {encrypt_message(1, 12), encrypt_message(2, 12), encrypt_message(1, 15)}

\* transaction.x_to_xpub: the xpub of an extended x_pubkey (50 + xpub), or
\* 0 (None) for a plain public key.
x_to_xpub(x_pubkey) == IF x_pubkey > 50 THEN x_pubkey - 50 ELSE 0

\* Transactions handed to do_send: tx.raw and the x_pubkeys of tx.inputs.
Txs == { [raw |-> 7, inputs |-> << <<53, 54>> >>],
         [raw |-> 8, inputs |-> << <<53>>, <<4>> >>] }

\* ---------------------------------------------------------------- state
VARIABLES
    windows,        \* parent.windows (by wallet)
    listener,       \* Plugin.listener: 0 is None, 1 the Listener in slot 1
    keys,           \* Plugin.keys: <<key, _hash, window>>
    cosigner_list,  \* Plugin.cosigner_list: <<window, xpub, K, _hash>>
    running,        \* Listener.running (DaemonThread)
    received,       \* Listener.received
    keyhashes,      \* Listener.keyhashes
    pc,             \* Listener.run position: "none", "loop", "scan"
    cur,            \* the list the for loop of run() iterates
    idx,            \* the position of that for loop in cur
    store,          \* the pool server: key hash -> message
    queue,          \* emitted "cosigner:receive" signals awaiting delivery
    frames,         \* on_receive calls suspended at their prompt (a stack)
    pending,        \* key hash with a new message put right after a completed
                    \* clear and not yet polled by the plugin's Listener
    ev              \* what the last step did

vars == <<windows, listener, keys, cosigner_list, running, received,
          keyhashes, pc, cur, idx, store, queue, frames, pending, ev>>

plugin_vars == <<windows, listener, keys, cosigner_list>>
thread_vars == <<running, received, keyhashes, pc, cur, idx>>

Quiet == [op |-> "none"]

\* ------------------------------------------------------------- helpers
RECURSIVE Flatten(_)
Flatten(ss) == IF ss = <<>> THEN <<>> ELSE Head(ss) \o Flatten(Tail(ss))

Min(a, b) == IF a < b THEN a ELSE b

Range(s) == {s[i] : i \in 1..Len(s)}

\* A dict of the elements of S iterates in one order.
RECURSIVE OrderOf(_)
OrderOf(S) ==
    IF S = {} THEN <<>>
    ELSE LET w == CHOOSE x \in S : \A y \in S : x = y \/ x = "w1" \/ (x = "w2" /\ y # "w1")
         IN  <<w>> \o OrderOf(S \ {w})

\* ------------------------------------------------------------ Listener
\* The failed server.get calls for keyhash that thread l made last, with
\* no step but its own loop steps since.
Streak(l, keyhash) ==
    IF ev.op = "getfail" /\ ev.l = l /\ ev.keyhash = keyhash THEN ev.streak ELSE 0

\* A step of thread l that does nothing visible keeps its failed get on
\* record.
KeepFail(l) == IF ev.op = "getfail" /\ ev.l = l THEN ev ELSE Quiet

\* A slot holding no Listener.
Free(l) == pc[l] = "none"

\* A received set that all Listener objects share.
NewReceivedShared(old) == old

\* Listener.__init__: received = set(), whatever the Listener objects
\* before it have received.
NewReceived(old) == {}

\* DaemonThread.start and DaemonThread.stop: the flag run() tests.
start(run, l) == [run EXCEPT ![l] = TRUE]
stop(run, l) == [run EXCEPT ![l] = FALSE]

\* A loop that does not test received.
AlreadyReceivedNever(l, keyhash) == FALSE

\* `if keyhash in self.received: continue`
AlreadyReceived(l, keyhash) == keyhash \in received[l]

\* The thread of l leaves run(): the object is garbage.
Exit(l) ==
    /\ pc' = [pc EXCEPT ![l] = "none"]
    /\ running' = [running EXCEPT ![l] = FALSE]
    /\ received' = [received EXCEPT ![l] = {}]
    /\ keyhashes' = [keyhashes EXCEPT ![l] = <<>>]
    /\ UNCHANGED <<cur, idx>>

\* `while self.running` then `if not self.keyhashes: sleep; continue`.
LoopHead(l) ==
    /\ pc[l] = "loop"
    /\ IF ~running[l]
         THEN Exit(l)
         ELSE /\ IF keyhashes[l] = <<>>
                   THEN UNCHANGED <<pc, cur, idx>>
                   ELSE /\ pc' = [pc EXCEPT ![l] = "scan"]
                        /\ cur' = [cur EXCEPT ![l] = keyhashes[l]]
                        /\ idx' = [idx EXCEPT ![l] = 1]
              /\ UNCHANGED <<running, received, keyhashes>>
    /\ ev' = KeepFail(l)
    /\ UNCHANGED <<plugin_vars, store, queue, frames, pending>>

\* The for loop moves to its next key hash; after the last one the thread
\* sleeps and returns to the while test.
Advance(l) ==
    IF idx[l] < Len(cur[l])
      THEN /\ idx' = [idx EXCEPT ![l] = idx[l] + 1]
           /\ UNCHANGED <<pc, cur>>
      ELSE /\ pc' = [pc EXCEPT ![l] = "loop"]
           /\ cur' = [cur EXCEPT ![l] = <<>>]
           /\ idx' = [idx EXCEPT ![l] = 0]

\* One iteration that finds its key hash in received and skips it.
PollSkip(l) ==
    /\ pc[l] = "scan"
    /\ AlreadyReceived(l, cur[l][idx[l]])
    /\ Advance(l)
    /\ ev' = IF ev.op = "getfail" /\ ev.l = l
               THEN ev
               ELSE [op |-> "skip", l |-> l, keyhash |-> cur[l][idx[l]]]
    /\ UNCHANGED <<plugin_vars, running, received, keyhashes, store, queue,
                   frames, pending>>

\* An except branch that falls through to received.add.
ReceivedAfterFailMarked(rcv, keyhash) == rcv \cup {keyhash}

\* What a raising server.get leaves of received: the except branch logs,
\* sleeps and continues.
ReceivedAfterFail(rcv, keyhash) == rcv

\* One iteration whose server.get raises.
PollFail(l) ==
    LET keyhash == cur[l][idx[l]]
    IN  /\ pc[l] = "scan"
        /\ ~AlreadyReceived(l, keyhash)
        /\ Advance(l)
        /\ received' = [received EXCEPT ![l] = ReceivedAfterFail(@, keyhash)]
        /\ ev' = [op |-> "getfail", l |-> l, keyhash |-> keyhash,
                  streak |-> Min(Streak(l, keyhash) + 1, MaxFails)]
        /\ UNCHANGED <<plugin_vars, running, keyhashes, store, queue,
                       frames, pending>>

\* The signals one returning server.get makes run() emit.
Emitted(keyhash, message) ==
    IF message # NoMessage
      THEN << [keyhash |-> keyhash, message |-> message] >>
      ELSE <<>>

\* One iteration whose server.get returns: a message is added to received
\* and emitted, nothing stored is passed over.
PollGet(l) ==
    LET keyhash == cur[l][idx[l]]
        message == store[keyhash]
        out     == Emitted(keyhash, message)
    IN  /\ pc[l] = "scan"
        /\ ~AlreadyReceived(l, keyhash)
        /\ Len(queue) + Len(out) <= MaxQueue
        /\ Advance(l)
        /\ received' = IF message # NoMessage
                         THEN [received EXCEPT ![l] = @ \cup {keyhash}]
                         ELSE received
        /\ queue' = queue \o out
        /\ pending' = IF pending = keyhash /\ l = 1 THEN 0 ELSE pending
        /\ ev' = [op |-> "get", l |-> l, keyhash |-> keyhash,
                  message |-> message, streak |-> Streak(l, keyhash)]
        /\ UNCHANGED <<plugin_vars, running, keyhashes, store, frames>>

\* -------------------------------------------------------------- Plugin
\* available_wallets: the windows whose wallet is a multisig wallet.
available_wallets(wins) == {w \in wins : wallet_type(w) \in {"2of2", "2of3"}}

\* A loop that appends every master public key to self.keys, with or
\* without its private key.
WalletKeysAll(w) ==
    LET items == master_public_keys(w)
    IN  [i \in 1..Len(items) |-> <<items[i][1], KeyHashOf(items[i][2]), w>>]

\* The entries one wallet adds to self.keys.
WalletKeys(w) ==
    LET items == master_public_keys(w)
    IN  Flatten([i \in 1..Len(items) |->
            IF items[i][1] \in master_private_keys(w)
              THEN << <<items[i][1], KeyHashOf(items[i][2]), w>> >>
              ELSE <<>>])

\* The entries one wallet adds to self.cosigner_list.
WalletCosigners(w) ==
    LET items == master_public_keys(w)
    IN  Flatten([i \in 1..Len(items) |->
            IF items[i][1] \in master_private_keys(w)
              THEN <<>>
              ELSE << <<w, items[i][2], deserialize_xkey(items[i][2]),
                        KeyHashOf(items[i][2])>> >>])

\* The appends of the loop without the `self.keys = []` before it.
RebuildKeysAppend(old, order) ==
    old \o Flatten([i \in 1..Len(order) |-> WalletKeys(order[i])])

\* self.keys = [] followed by the appends of the loop over the wallets.
RebuildKeys(old, order) == Flatten([i \in 1..Len(order) |-> WalletKeys(order[i])])

\* self.cosigner_list = [] followed by the appends of the loop.
RebuildCosigners(old, order) ==
    Flatten([i \in 1..Len(order) |-> WalletCosigners(order[i])])

\* [t[1] for t in self.keys]
HashesOf(ks) == [i \in 1..Len(ks) |-> ks[i][2]]

\* set_keyhashes called before self.keys is rebuilt.
InstalledKeyhashesStale(oldkeys, newkeys) == HashesOf(oldkeys)

\* The key hashes update() installs in the Listener it is left with:
\* set_keyhashes([t[1] for t in self.keys]) after the rebuild.
InstalledKeyhashes(oldkeys, newkeys) == HashesOf(newkeys)

\* An update() that never drops its Listener.
ListenerAfterKept(wallets, lis) == IF wallets # {} THEN 1 ELSE lis

\* self.listener after the first branch of update(): a Listener is created
\* when there are wallets and none exists, dropped when there are no
\* wallets and one exists, kept otherwise.
ListenerAfter(wallets, lis) ==
    IF wallets # {} /\ lis = 0 THEN 1
    ELSE IF wallets = {} /\ lis # 0 THEN 0
    ELSE lis

\* A set_keyhashes that drops from received what is no longer watched.
ReceivedAfterSetPruned(rcv, newhashes) == rcv \cap Range(newhashes)

\* What set_keyhashes(newhashes) leaves of received: it assigns keyhashes
\* and nothing else.
ReceivedAfterSet(rcv, newhashes) == rcv

\* What the stopped Listener objects still alive have received.
EarlierReceived == UNION {received[z] : z \in Listeners \ {1}}

\* The lowest slot free to hold the Listener update() is about to stop.
StoppedSlot == CHOOSE z \in Listeners \ {1} : Free(z) /\ \A y \in 2..(z - 1) : ~Free(y)

\* Plugin.update() after parent.windows became wins.
update(wins) ==
    LET wallets == available_wallets(wins)
        starts  == wallets # {} /\ listener = 0
        stops   == wallets = {} /\ listener # 0
        lis     == ListenerAfter(wallets, listener)
        newkeys == RebuildKeys(keys, OrderOf(wallets))
        z       == StoppedSlot
        move(f, init) == [f EXCEPT ![z] = f[1], ![1] = init]
    IN  /\ stops => \E y \in Listeners \ {1} : Free(y)
        /\ windows' = wins
        /\ listener' = lis
        /\ keys' = newkeys
        /\ cosigner_list' = RebuildCosigners(cosigner_list, OrderOf(wallets))
        /\ IF stops
             THEN \* self.listener.stop(); self.listener = None: the object
                  \* moves to slot z, where its thread runs on.
                  /\ running' = [stop(running, 1) EXCEPT ![z] = stop(running, 1)[1], ![1] = FALSE]
                  /\ received' = move(received, {})
                  /\ keyhashes' = [keyhashes EXCEPT ![1] = <<>>]
                  /\ pc' = move(pc, "none")
                  /\ cur' = move(cur, <<>>)
                  /\ idx' = move(idx, 0)
             ELSE /\ running' = IF starts THEN start(running, 1) ELSE running
                  /\ received' = IF starts
                                   THEN [received EXCEPT ![1] = NewReceived(EarlierReceived)]
                                   ELSE IF lis # 0
                                   THEN [received EXCEPT ![1] =
                                            ReceivedAfterSet(@, HashesOf(newkeys))]
                                   ELSE received
                  /\ pc' = IF starts THEN [pc EXCEPT ![1] = "loop"] ELSE pc
                  /\ keyhashes' = IF lis # 0
                                    THEN [keyhashes EXCEPT ![1] = InstalledKeyhashes(keys, newkeys)]
                                    ELSE keyhashes
                  /\ UNCHANGED <<cur, idx>>
        /\ pending' = IF lis # listener \/ pending \notin Range(HashesOf(newkeys))
                        THEN 0 ELSE pending
        /\ UNCHANGED <<store, queue, frames>>

\* on_new_window
OpenWindow(w) ==
    /\ w \notin windows
    /\ update(windows \cup {w})
    /\ ev' = Quiet

\* on_close_window
CloseWindow(w) ==
    /\ w \in windows
    /\ update(windows \ {w})
    /\ ev' = Quiet

\* A remote cosigner puts a message at one of the local key hashes.
RemotePut(h, message) ==
    /\ store[h] # message
    /\ store' = [store EXCEPT ![h] = message]
    /\ pending' = IF ev.op = "recv" /\ ev.out = "ok" /\ ev.keyhash = h
                       /\ message.raw # ev.shown
                    THEN h
                    ELSE pending
    /\ ev' = Quiet
    /\ UNCHANGED <<plugin_vars, thread_vars, queue, frames>>

\* ----------------------------------------------------------- on_receive
\* A for loop whose else branch does not return: the loop variables keep
\* the last entry of self.keys.
LookupFallsThrough(ks, keyhash) ==
    LET hits == {i \in 1..Len(ks) : ks[i][2] = keyhash}
    IN  IF hits = {} THEN Len(ks) ELSE CHOOSE i \in hits : \A j \in hits : i <= j

\* `for key, _hash, window in self.keys: if _hash == keyhash: break`: the
\* index of the first entry for keyhash, 0 where the else branch returns.
Lookup(ks, keyhash) ==
    LET hits == {i \in 1..Len(ks) : ks[i][2] = keyhash}
    IN  IF hits = {} THEN 0 ELSE CHOOSE i \in hits : \A j \in hits : i <= j

\* on_receive up to its prompt (password_dialog or question): a signal is
\* taken from the queue, dropped when no entry of self.keys has its hash.
OnReceiveBegin ==
    /\ queue # <<>>
    /\ LET n == Head(queue)
           i == Lookup(keys, n.keyhash)
       IN  IF i = 0
             THEN /\ frames' = frames
                  /\ ev' = [op |-> "recv", out |-> "notfound", keyhash |-> n.keyhash,
                            shown |-> 0, told |-> FALSE, raised |-> "no"]
             ELSE /\ Len(frames) < MaxNest
                  /\ frames' = Append(frames, [keyhash |-> n.keyhash, message |-> n.message,
                                               key |-> keys[i][1], window |-> keys[i][3]])
                  /\ ev' = Quiet
    /\ queue' = Tail(queue)
    /\ UNCHANGED <<plugin_vars, thread_vars, store, pending>>

\* The xpub wallet w configures under key.
XpubOf(w, key) ==
    LET items == master_public_keys(w)
    IN  items[CHOOSE i \in 1..Len(items) : items[i][1] = key][2]

\* What the collaborators of one on_receive call do: the user declines the
\* prompt; the wallet has no xprv; server.delete raises; none of these.
Inputs == {"declined", "nokey", "delete_fails", "fine"}

\* wallet.get_master_private_key(key, password): the xprv, or 0 (None).
get_master_private_key(w, key, in) == IF in # "nokey" THEN 200 + XpubOf(w, key) ELSE 0

\* An except branch around the decrypt that does not return.
ReceiveOutcomeNoReturn(f, in) ==
    LET xprv == get_master_private_key(f.window, f.key, in)
    IN  IF in = "declined" THEN [out |-> "declined", raw |-> 0]
        ELSE IF xprv = 0 THEN [out |-> "nokey", raw |-> 0]
        ELSE [out |-> "decrypted", raw |-> f.message.raw]

\* on_receive from the answer to its prompt to the decrypt: "declined" (no
\* password, or the question answered no), "nokey" (no xprv),
\* "decrypt_error" (the except branch) or "decrypted" with the payload.
ReceiveOutcome(f, in) ==
    LET xprv == get_master_private_key(f.window, f.key, in)
        raw  == decrypt_message(f.message, deserialize_xkey(xprv))
    IN  IF in = "declined" THEN [out |-> "declined", raw |-> 0]
        ELSE IF xprv = 0 THEN [out |-> "nokey", raw |-> 0]
        ELSE IF raw = 0 THEN [out |-> "decrypt_error", raw |-> 0]
        ELSE [out |-> "decrypted", raw |-> raw]

\* self.listener.clear(keyhash): "ok", or what it raises and nothing in
\* on_receive catches: self.listener is None, server.delete raises, or
\* received.remove raises.
ClearOutcome(keyhash, in) ==
    IF listener = 0 THEN "AttributeError"
    ELSE IF in = "delete_fails" THEN "ExchangeError"
    ELSE IF keyhash \notin received[1] THEN "KeyError"
    ELSE "ok"

\* A show_transaction that runs before clear.
ShownBeforeClear(r, c) == IF r.out = "decrypted" THEN r.raw ELSE 0

\* The payload show_transaction is called with, 0 where it is not called:
\* it follows clear, so it is reached only when clear returned.
Shown(r, c) == IF r.out = "decrypted" /\ c = "ok" THEN r.raw ELSE 0

\* on_receive from the answer to its prompt to its end.
OnReceiveFinish(in) ==
    /\ frames # <<>>
    /\ LET f == frames[Len(frames)]
           r == ReceiveOutcome(f, in)
           c == ClearOutcome(f.keyhash, in)
           deleted == r.out = "decrypted" /\ listener # 0 /\ in # "delete_fails"
       IN  /\ frames' = SubSeq(frames, 1, Len(frames) - 1)
           /\ store' = IF deleted THEN [store EXCEPT ![f.keyhash] = NoMessage] ELSE store
           /\ received' = IF r.out = "decrypted" /\ c = "ok"
                            THEN [received EXCEPT ![1] = @ \ {f.keyhash}]
                            ELSE received
           /\ pending' = IF deleted /\ pending = f.keyhash THEN 0 ELSE pending
           /\ ev' = [op |-> "recv",
                     out |-> IF r.out # "decrypted" THEN r.out
                             ELSE IF c = "ok" THEN "ok" ELSE "uncaught",
                     keyhash |-> f.keyhash,
                     shown |-> Shown(r, c),
                     told |-> r.out = "decrypt_error",
                     raised |-> IF r.out = "decrypted" /\ c # "ok" THEN c ELSE "no"]
    /\ UNCHANGED <<plugin_vars, running, keyhashes, pc, cur, idx, queue>>

\* -------------------------------------------------------------- do_send
\* A cosigner_can_sign that accepts every cosigner.
CanSignAlways(tx, cosigner_xpub) == TRUE

\* cosigner_can_sign(tx, cosigner_xpub)
cosigner_can_sign(tx, cosigner_xpub) ==
    LET xpub_set == UNION {{x_to_xpub(tx.inputs[i][j]) : j \in 1..Len(tx.inputs[i])} :
                              i \in 1..Len(tx.inputs)} \ {0}
    IN  cosigner_xpub \in xpub_set

\* The for loop of do_send from entry i of self.cosigner_list on, F the
\* entries whose server.put raises: the store and, per put, the key hash,
\* the message and whether it was stored (the window is told either way).
RECURSIVE SendFrom(_, _, _, _)
SendFrom(i, tx, F, acc) ==
    IF i > Len(cosigner_list) THEN acc
    ELSE LET e == cosigner_list[i]
             message == encrypt_message(tx.raw, e[3])
             put(ok) == [entry |-> i, keyhash |-> e[4], message |-> message, ok |-> ok]
         IN  IF ~cosigner_can_sign(tx, e[2]) THEN SendFrom(i + 1, tx, F, acc)
             ELSE IF i \in F
                    THEN [acc EXCEPT !.log = Append(@, put(FALSE))]
                    ELSE SendFrom(i + 1, tx, F,
                                  [store |-> [acc.store EXCEPT ![e[4]] = message],
                                   log |-> Append(acc.log, put(TRUE))])

\* A for loop that goes on to the next entry after a failed put.
RECURSIVE SendFromContinue(_, _, _, _)
SendFromContinue(i, tx, F, acc) ==
    IF i > Len(cosigner_list) THEN acc
    ELSE LET e == cosigner_list[i]
             message == encrypt_message(tx.raw, e[3])
             put(ok) == [entry |-> i, keyhash |-> e[4], message |-> message, ok |-> ok]
         IN  IF ~cosigner_can_sign(tx, e[2]) THEN SendFromContinue(i + 1, tx, F, acc)
             ELSE SendFromContinue(i + 1, tx, F,
                    [store |-> IF i \in F THEN acc.store
                               ELSE [acc.store EXCEPT ![e[4]] = message],
                     log |-> Append(acc.log, put(i \notin F))])

SendLoopContinue(tx, F) == SendFromContinue(1, tx, F, [store |-> store, log |-> <<>>])

\* The for loop of do_send over all of self.cosigner_list.
SendLoop(tx, F) == SendFrom(1, tx, F, [store |-> store, log |-> <<>>])

\* do_send(tx)
DoSend(tx, F) ==
    LET r == SendLoop(tx, F)
    IN  /\ cosigner_list # <<>>
        /\ store' = r.store
        /\ ev' = [op |-> "send", tx |-> tx, F |-> F, log |-> r.log]
        /\ UNCHANGED <<plugin_vars, thread_vars, queue, frames, pending>>

Init ==
    /\ windows = {}
    /\ listener = 0
    /\ keys = <<>>
    /\ cosigner_list = <<>>
    /\ running = [l \in Listeners |-> FALSE]
    /\ received = [l \in Listeners |-> {}]
    /\ keyhashes = [l \in Listeners |-> <<>>]
    /\ pc = [l \in Listeners |-> "none"]
    /\ cur = [l \in Listeners |-> <<>>]
    /\ idx = [l \in Listeners |-> 0]
    /\ store = [h \in KeyHashes |-> NoMessage]
    /\ queue = <<>>
    /\ frames = <<>>
    /\ pending = 0
    /\ ev = Quiet

\* The Listener threads, the directory rebuilds, the remote cosigners and
\* the receive path.
Next ==
    \/ \E l \in Listeners : LoopHead(l)
    \/ \E l \in Listeners : PollSkip(l)
    \/ \E l \in Listeners : PollFail(l)
    \/ \E l \in Listeners : PollGet(l)
    \/ \E w \in Windows : OpenWindow(w)
    \/ \E w \in Windows : CloseWindow(w)
    \/ \E h \in LocalHashes : \E m \in RemoteMessages(h) : RemotePut(h, m)
    \/ OnReceiveBegin
    \/ \E in \in Inputs : OnReceiveFinish(in)

Spec == Init /\ [][Next]_vars

\* The send path beside the Listener threads and the directory rebuilds.
\* do_send writes the server only at the key hashes of self.cosigner_list,
\* which no Listener polls and no on_receive clears, so it is explored
\* apart from the remote puts and the receive path.
NextSend ==
    \/ \E l \in Listeners : LoopHead(l)
    \/ \E l \in Listeners : PollFail(l)
    \/ \E l \in Listeners : PollGet(l)
    \/ \E w \in Windows : OpenWindow(w)
    \/ \E w \in Windows : CloseWindow(w)
    \/ \E tx \in Txs : \E F \in SUBSET (1..Len(cosigner_list)) : DoSend(tx, F)

SpecSend == Init /\ [][NextSend]_vars

\* ---------------------------------------------------------------- claims
\* The step just taken was a server.get of thread l that made run() emit a
\* signal for keyhash.
Notified(l, keyhash) ==
    ev.op = "get" /\ ev.l = l /\ ev.keyhash = keyhash /\ ev.message # NoMessage

\* C1: while a key hash is in a Listener's received set, no poll of that
\* Listener emits a signal for it; and a signal is emitted only together
\* with adding its key hash to received.  Only clear takes it out again.
C1_NoRenotify ==
    [][\A l \in Listeners, h \in KeyHashes :
          /\ h \in received[l] => ~Notified(l, h)'
          /\ Notified(l, h)' => h \in received'[l]]_vars

\* C1 witness: a poll has passed over a key hash it had already delivered,
\* with the message still stored at the server.
C1_Witness ==
    /\ ev.op = "skip"
    /\ ev.keyhash \in received[ev.l]
    /\ store[ev.keyhash] # NoMessage

\* C2 (as claimed): a message put right after a completed clear stays at
\* the server until the plugin's Listener has polled it, so that the
\* Listener emits the one signal that carries it.
C2_PutAfterClearIsNotified ==
    [][pending # 0 => store'[pending] # NoMessage]_vars

\* C3 (as claimed): a Listener that has been stopped emits no signal.
C3_NoSignalAfterStop ==
    [][\A l \in Listeners, h \in KeyHashes :
          (~Free(l) /\ ~running[l]) => ~Notified(l, h)']_vars

\* C4: a server.get that raises emits nothing, adds nothing to received
\* and leaves the thread running in its loop; the get that succeeds after
\* such failures, with a message stored, appends exactly one signal, which
\* carries the key hash and the stored message.
C4_GetFailureRetried ==
    [][\A l \in Listeners :
          /\ PollFail(l) =>
                /\ queue' = queue
                /\ received' = received
                /\ running' = running
                /\ pc'[l] \in {"scan", "loop"}
          /\ (PollGet(l) /\ Streak(l, cur[l][idx[l]]) > 0
                /\ store[cur[l][idx[l]]] # NoMessage) =>
                /\ queue' = Append(queue, [keyhash |-> cur[l][idx[l]],
                                           message |-> store[cur[l][idx[l]]]])
                /\ received'[l] = received[l] \cup {cur[l][idx[l]]}]_vars

\* C4 witness: a signal was emitted by the get that followed MaxFails
\* failed gets for the same key hash.
C4_Witness ==
    ev.op = "get" /\ ev.streak = MaxFails /\ ev.message # NoMessage

\* The entries of self.cosigner_list that can sign tx, in list order.
Eligible(tx) ==
    LET n == Len(cosigner_list)
        idxs == {i \in 1..n : cosigner_can_sign(tx, cosigner_list[i][2])}
        RECURSIVE upto(_)
        upto(i) == IF i > n THEN <<>>
                   ELSE (IF i \in idxs THEN <<i>> ELSE <<>>) \o upto(i + 1)
    IN  upto(1)

\* C5 (as claimed): after a do_send every entry that can sign has had its
\* put attempted, whether or not an earlier put failed.
C5_AllRecipientsAttempted ==
    ev.op = "send" =>
        {ev.log[i].entry : i \in 1..Len(ev.log)} = Range(Eligible(ev.tx))

\* C5 (amended): do_send attempts the entries that can sign in list order
\* up to and including the first whose put fails; that failure is reported
\* and ends the send, the puts before it are stored under the entry's key
\* hash, encrypted for the entry's key.
C5_SendStopsAtFirstFailure ==
    ev.op = "send" =>
        LET el == Eligible(ev.tx)
            failing == {i \in 1..Len(el) : el[i] \in ev.F}
            last == IF failing = {} THEN Len(el)
                    ELSE CHOOSE i \in failing : \A j \in failing : i <= j
        IN  /\ Len(ev.log) = last
            /\ \A i \in 1..last :
                  /\ ev.log[i].entry = el[i]
                  /\ ev.log[i].ok = (el[i] \notin ev.F)
                  /\ ev.log[i].keyhash = KeyHashOf(cosigner_list[el[i]][2])
                  /\ ev.log[i].message.raw = ev.tx.raw
                  /\ ev.log[i].message.K = deserialize_xkey(cosigner_list[el[i]][2])
                  /\ ev.log[i].ok => store[ev.log[i].keyhash] = ev.log[i].message

\* C5 witness: a send whose put failed for one entry while another entry
\* that can sign came after it.
C5_Witness ==
    /\ ev.op = "send"
    /\ ev.log # <<>>
    /\ ~ev.log[Len(ev.log)].ok
    /\ Len(Eligible(ev.tx)) > Len(ev.log)

\* C6 (as claimed): no failure of the server leaves on_receive uncaught;
\* in particular not the server.delete of clear.
C6_ExchangeFailureRecovered ==
    ~(ev.op = "recv" /\ ev.raised = "ExchangeError")

\* The on_receive call now at its prompt cannot decrypt its message: the
\* message was not encrypted for the key of its directory entry.
Undecryptable(f) == f.message.K # deserialize_xkey(XpubOf(f.window, f.key))

\* C7: an on_receive that ends without a successful decrypt (declined
\* prompt, no private key, or a message not encrypted for the key) leaves
\* received and the server as they were and shows no transaction; it tells
\* the user exactly when the decrypt failed.
C7_NoClearWithoutDecrypt ==
    [][\A in \in Inputs :
          LET f == frames[Len(frames)]
          IN  (OnReceiveFinish(in) /\ (in \in {"declined", "nokey"} \/ Undecryptable(f))) =>
                /\ received' = received
                /\ store' = store
                /\ ev'.op = "recv" /\ ev'.shown = 0 /\ ev'.raised = "no"
                /\ ev'.told = (in \notin {"declined", "nokey"})]_vars

\* C7 witness: a decrypt failed and was reported; the key hash is still in
\* received and the message still at the server.
C7_Witness ==
    /\ ev.op = "recv" /\ ev.out = "decrypt_error" /\ ev.told
    /\ listener = 1
    /\ ev.keyhash \in received[1]
    /\ store[ev.keyhash] # NoMessage

\* C8: the Listener update() starts has an empty received set, also while
\* a stopped Listener that has received key hashes is still alive.
C8_StartsEmpty ==
    [][(listener = 0 /\ listener' = 1) => received'[1] = {}]_vars

\* C8 witness: the new Listener has emitted a signal for a key hash that
\* a stopped Listener, still alive, had delivered before.
C8_Witness ==
    /\ listener = 1
    /\ \E z \in Listeners \ {1} : ~Free(z) /\ ev.op = "get" /\ ev.l = 1
          /\ ev.message # NoMessage /\ ev.keyhash \in received[z]

\* The entries update() owes the windows now open: one "mine" entry per
\* key with private material, one "theirs" entry per key without.
Mine ==
    {<<master_public_keys(w)[i][1], KeyHashOf(master_public_keys(w)[i][2]), w>> :
        <<w, i>> \in {p \in Windows \X (1..3) :
            /\ p[1] \in windows /\ wallet_type(p[1]) \in {"2of2", "2of3"}
            /\ p[2] <= Len(master_public_keys(p[1]))
            /\ master_public_keys(p[1])[p[2]][1] \in master_private_keys(p[1])}}

Theirs ==
    {<<w, master_public_keys(w)[i][2], deserialize_xkey(master_public_keys(w)[i][2]),
       KeyHashOf(master_public_keys(w)[i][2])>> :
        <<w, i>> \in {p \in Windows \X (1..3) :
            /\ p[1] \in windows /\ wallet_type(p[1]) \in {"2of2", "2of3"}
            /\ p[2] <= Len(master_public_keys(p[1]))
            /\ master_public_keys(p[1])[p[2]][1] \notin master_private_keys(p[1])}}

\* C9: self.keys and self.cosigner_list hold exactly the entries of the
\* open multisig windows, each once; none of a closed window.
C9_DirectoryExact ==
    /\ Range(keys) = Mine /\ Len(keys) = Cardinality(Mine)
    /\ Range(cosigner_list) = Theirs /\ Len(cosigner_list) = Cardinality(Theirs)

\* C9 witness: after all windows were closed (a stopped Listener is still
\* alive) one window is open again and the directory holds its entries.
C9_Witness ==
    /\ windows = {"w1"}
    /\ \E z \in Listeners \ {1} : ~Free(z)
    /\ Len(keys) = 1 /\ Len(cosigner_list) = 1

\* C10: while the plugin has a Listener, the Listener's keyhashes are the
\* key hashes of self.keys as the last update() left them.
C10_WatchSetCurrent ==
    listener # 0 =>
        /\ Len(keyhashes[1]) = Len(keys)
        /\ \A i \in 1..Len(keys) : keyhashes[1][i] = keys[i][2]

\* C10 witness: the Listener's thread still iterates the list of an
\* earlier update() while keyhashes is already that of the last one.
C10_Witness ==
    /\ listener = 1
    /\ windows = {"w2"}
    /\ Len(cur[1]) = 2
    /\ keyhashes[1] = <<KeyHashOf(2)>>

\* C11: an on_receive whose key hash is the hash of no entry of self.keys,
\* as self.keys is when the signal is delivered, returns at once: no prompt
\* is opened (so no private key is asked for and nothing is decrypted), the
\* server and every received set stay as they were, no transaction is
\* shown, the user is told nothing and nothing is raised.
C11_StaleSignalDiscarded ==
    [][(OnReceiveBegin /\ Head(queue).keyhash \notin Range(HashesOf(keys))) =>
          /\ frames' = frames
          /\ store' = store
          /\ received' = received
          /\ ev'.op = "recv" /\ ev'.out = "notfound"
          /\ ev'.shown = 0 /\ ~ev'.told /\ ev'.raised = "no"]_vars

\* C11 witness: a signal was dropped for a key hash of a closed window
\* while self.keys held the entries of another window.
C11_Witness ==
    /\ ev.op = "recv" /\ ev.out = "notfound"
    /\ keys # <<>>
    /\ ev.keyhash \notin Range(HashesOf(keys))

\* C12: after every update() the plugin has a Listener exactly when some
\* multisig window is open, and the Listener it has is running.
C12_ListenerIffWallets ==
    /\ (listener # 0) <=> (available_wallets(windows) # {})
    /\ listener # 0 => running[1]
    /\ listener = 0 => ~running[1]

\* C12 witness: all windows were closed and one was opened again: a new
\* Listener runs while the stopped one is still alive.
C12_Witness ==
    /\ listener = 1 /\ running[1]
    /\ available_wallets(windows) = {"w2"}
    /\ \E z \in Listeners \ {1} : ~Free(z) /\ ~running[z]

\* The xpub is among those the x_pubkeys of the inputs of tx embed.
Embedded(tx, xpub) ==
    \E i \in 1..Len(tx.inputs) : \E j \in 1..Len(tx.inputs[i]) :
        x_to_xpub(tx.inputs[i][j]) # 0 /\ x_to_xpub(tx.inputs[i][j]) = xpub

MineHashes ==
    {KeyHashOf(master_public_keys(p[1])[p[2]][2]) :
        p \in {q \in Windows \X (1..3) :
                  /\ q[2] <= Len(master_public_keys(q[1]))
                  /\ master_public_keys(q[1])[q[2]][1] \in master_private_keys(q[1])}}

TheirsOnly == {cosigner_list[i][4] : i \in 1..Len(cosigner_list)} \ Range(HashesOf(keys))

C15_ClearBeforeShow ==
    (ev.op = "recv" /\ ev.shown # 0) =>
        /\ ev.out = "ok" /\ ev.raised = "no"
        /\ listener = 1
        /\ store[ev.keyhash] = NoMessage
        /\ ev.keyhash \notin received[1]

\* C15 witness: the second payload was decrypted, cleared and shown.
C15_Witness ==
    /\ ev.op = "recv" /\ ev.shown = 2
    /\ store[ev.keyhash] = NoMessage

\* C16: an update() that keeps its Listener installs the key hashes of the
\* rebuilt self.keys as a whole and leaves received as it was; while the
\* plugin keeps its Listener a key hash leaves received only by the clear
\* of an on_receive, and no signal is emitted for a key hash in received.
C16_SetKeyhashesKeepsReceived ==
    [][/\ (listener = 1 /\ listener' = 1 /\ windows' # windows) =>
             /\ received'[1] = received[1]
             /\ keyhashes'[1] = HashesOf(keys')
       /\ \A h \in KeyHashes :
             (listener = 1 /\ listener' = 1 /\ h \in received[1]) =>
                 /\ ~Notified(1, h)'
                 /\ h \notin received'[1] =>
                       (ev'.op = "recv" /\ ev'.out = "ok" /\ ev'.keyhash = h)]_vars

\* C16 witness: a key hash delivered while its window was open is still in
\* received after the window was closed (the thread iterates the list
\* without it) and opened again (keyhashes holds it again), its message
\* still stored.
C16_Witness ==
    /\ listener = 1
    /\ cur[1] = <<KeyHashOf(1)>>
    /\ keyhashes[1] = <<KeyHashOf(1), KeyHashOf(2)>>
    /\ KeyHashOf(2) \in received[1]
    /\ store[KeyHashOf(2)] # NoMessage

\* C17 (as claimed): when on_receive goes on after its prompt, the key and
\* window it works with are those of the entry self.keys holds for the key
\* hash at that moment, and the plugin has a Listener.
C17_DispatchUsesLatestDirectory ==
    [][\A in \in Inputs : OnReceiveFinish(in) =>
          LET f == frames[Len(frames)]
              i == Lookup(keys, f.keyhash)
          IN  /\ listener # 0
              /\ i # 0
              /\ keys[i][1] = f.key
              /\ keys[i][3] = f.window]_vars

\* C18 (as claimed): whenever on_receive calls clear on the plugin's
\* Listener, the key hash is in that Listener's received set.
C18_ClearedHashWasReceived ==
    [][\A in \in Inputs :
          (OnReceiveFinish(in) /\ listener # 0
             /\ ReceiveOutcome(frames[Len(frames)], in).out = "decrypted") =>
                frames[Len(frames)].keyhash \in received[1]]_vars

\* C19 (as claimed): the server.delete of clear removes only the message
\* the signal carried.
C19_DeleteOnlyNotifiedEnvelope ==
    [][\A in \in Inputs : OnReceiveFinish(in) =>
          LET f == frames[Len(frames)]
          IN  store'[f.keyhash] # store[f.keyhash] => store[f.keyhash] = f.message]_vars

\* C20 (as claimed): while the plugin has a running Listener, no stopped
\* Listener calls server.get.
C20_OnePollingLoop ==
    [][\A z \in Listeners \ {1} :
          (listener = 1 /\ running[1]) => ~(PollGet(z) \/ PollFail(z))]_vars
====
